---- MODULE Spec2Model ----
(***************************************************************************)
(* Model of the retrieval and confidence-tiered generation pipeline of     *)
(* legal-rag-india: VectorStore (src/vector_store.py) and RAGService       *)
(* (src/rag_service.py).                                                   *)
(*                                                                         *)
(* Numbers.  Vectors are sequences of integers in fixed point: Unit is the *)
(* length 1.0.  Similarity scores are integers in units of 1e-7, so that   *)
(* ScoreOne is the score 1.0 and 0.55, 0.65 and 0.6500001 are all exact.   *)
(***************************************************************************)
EXTENDS Integers, Sequences, FiniteSets, TLC

VARIABLES
    index,          \* VectorStore.index: NoIndex or the FAISS index
    doc_ids,        \* VectorStore.doc_ids
    metadata,       \* VectorStore.metadata
    disk,           \* the three files of the persisted store
    lastOp,         \* the last VectorStore call, its arguments and its outcome
    env_key,        \* whether GROQ_API_KEY is set in the environment
    rag,            \* "none" until RAGService.__init__ has completed, then "ready"
    ask,            \* the RAGService call in progress and its outcome
    completed,      \* history: a build_index or load of this VectorStore has
                    \* returned without an exception
    reqs,           \* backend: the /ask requests in flight, by slot
    boot            \* backend: the RAGService under construction, if any

---------------------------------------------------------------------------
(* Bounds of the model *)

MaxDocs == 2        \* the largest number of vectors handed to build_index
MaxK == 3           \* the largest k / top_k of a search

---------------------------------------------------------------------------
(* Representation of numbers *)

Unit == 10 * 10
ScoreOne == Unit * Unit * 1000
Dimension == 2

None == "None"

\* VectorStore.index before build_index or load: Python's None
NoIndex == [type |-> None, d |-> 0, nlist |-> 0, vecs |-> <<>>]

\* an optional value: <<>> is None and <<x>> is the value x
NoThreshold == <<>>
Some(x) == <<x>>

\* a file of the persisted store that does not exist
NoFile == [present |-> FALSE, data |-> <<>>]
File(x) == [present |-> TRUE, data |-> x]

Min(a, b) == IF a <= b THEN a ELSE b

Range(s) == {s[i] : i \in DOMAIN s}

RECURSIVE SumSeq(_)
SumSeq(s) == IF s = <<>> THEN 0 ELSE Head(s) + SumSeq(Tail(s))

\* inner product of two vectors of the same length
Dot(u, v) == SumSeq([i \in DOMAIN u |-> u[i] * v[i]])

\* the integer square root of n >= 0, by Newton's iteration from the guess r
RECURSIVE ISqrt(_, _)
ISqrt(n, r) ==
    IF n = 0 THEN 0
    ELSE LET next == (r + (n \div r)) \div 2
         IN  IF next >= r THEN r ELSE ISqrt(n, next)

\* the L2 norm, an integer for every vector of the model
Norm(v) == ISqrt(Dot(v, v), Dot(v, v))

\* a variant of NormalizeL2 that leaves every row as it is
NormalizeL2_Identity(v) == v

\* faiss.normalize_L2 on one row: divide by the norm, leave a zero row alone
NormalizeL2(v) ==
    IF Norm(v) = 0 THEN v
    ELSE [i \in DOMAIN v |-> (v[i] * Unit) \div Norm(v)]

\* the inner product of two stored (unit) vectors as a score
InnerProduct(u, v) == Dot(u, v) * (ScoreOne \div (Unit * Unit))

---------------------------------------------------------------------------
(* Inputs *)

VecA == <<3, 4>>
VecA2 == <<6, 8>>         \* parallel to VecA
VecB == <<1, 0>>
VecC == <<7, 24>>
VecD == <<24, 7>>
VecBadDim == <<1, 2, 2>>  \* a vector of the wrong dimension

DocVectors == {VecA, VecA2, VecC}
QueryVectors == {VecA2, VecB, VecC, VecD}

\* sequences over S of length lo..hi
SeqsOf(S, lo, hi) == UNION {[1..n -> S] : n \in lo..hi}

\* the embedding matrices handed to build_index: one and two documents, two
\* parallel documents, and longer ones as far as MaxDocs allows
AllCorpora ==
    {<<VecA>>, <<VecC>>, <<VecA, VecA2>>, <<VecC, VecA>>, <<VecBadDim>>,
     <<VecA2, VecC, VecA>>, <<VecC, VecA, VecA2, VecA>>}

Corpora == {e \in AllCorpora : Len(e) <= MaxDocs}

\* document identifiers, by position in the corpus
IdPool == [i \in 1..(MaxDocs + 4) |-> i]

\* metadata dicts, by position in the corpus; every second one lacks keys
MetaPool ==
    [i \in 1..(MaxDocs + 4) |->
        IF i % 2 = 1
        THEN [title |-> ToString(i), court |-> "SC", date |-> "2001",
              casenumber |-> ToString(i)]
        ELSE [title |-> ToString(i), court |-> "HC"]]

Prefix(s, n) == [i \in 1..n |-> s[i]]

IndexTypes == {"flat", "ivf", "hnsw"}

SimilarityThreshold == (45 * ScoreOne) \div 100
Thresholds == {NoThreshold, Some(SimilarityThreshold), Some((60 * ScoreOne) \div 100)}

---------------------------------------------------------------------------
(* VectorStore.build_index *)

NList(n) == Min(100, n \div 10)

\* a variant of CountsAgree that does not look at the metadata
CountsAgree_IdsOnly(embeddings, ids, meta) == Len(embeddings) = Len(ids)

\* the two assertions on the arguments of build_index
CountsAgree(embeddings, ids, meta) ==
    Len(embeddings) = Len(ids) /\ Len(ids) = Len(meta)

DimensionAgrees(embeddings) ==
    \A i \in DOMAIN embeddings : Len(embeddings[i]) = Dimension

\* the outcome of build_index: the store afterwards and the exception raised
BuildIndexResult(st, embeddings, ids, meta, index_type) ==
    IF ~CountsAgree(embeddings, ids, meta)
    THEN [store |-> st, raised |-> "AssertionError"]
    ELSE IF ~DimensionAgrees(embeddings)
    THEN [store |-> st, raised |-> "AssertionError"]
    ELSE LET normalized == [i \in DOMAIN embeddings |-> NormalizeL2(embeddings[i])]
         IN  IF index_type = "flat"
             THEN [store |-> [index |-> [type |-> "flat", d |-> Dimension,
                                         nlist |-> 0, vecs |-> normalized],
                              doc_ids |-> ids, metadata |-> meta],
                   raised |-> None]
             ELSE IF index_type = "ivf"
             THEN [store |-> [index |-> [type |-> "ivf", d |-> Dimension,
                                         nlist |-> NList(Len(embeddings)),
                                         vecs |-> normalized],
                              doc_ids |-> ids, metadata |-> meta],
                   raised |-> None]
             ELSE [store |-> [index |-> st.index, doc_ids |-> ids, metadata |-> meta],
                   raised |-> "ValueError"]

Store == [index |-> index, doc_ids |-> doc_ids, metadata |-> metadata]

\* the record of a VectorStore call: its name, arguments, exception and result
Call(op, query, k, threshold, raised, results) ==
    [op |-> op, query |-> query, k |-> k, threshold |-> threshold,
     raised |-> raised, results |-> results]

\* no VectorStore call is in progress: the caller has taken the last result.
\* build_index, save and load are calls of the offline build (rag = "none");
\* the service loads its own store in RAGService.__init__ and only searches it
Idle == lastOp.op = "idle"

\* the caller takes the result of the last call
Return ==
    /\ ~Idle
    /\ lastOp' = Call("idle", <<>>, 0, NoThreshold, None, <<>>)
    /\ UNCHANGED <<index, doc_ids, metadata, disk, env_key, reqs, boot, completed, rag, ask>>

BuildIndex(embeddings, nIds, nMeta, index_type) ==
    LET r == BuildIndexResult(Store, embeddings, Prefix(IdPool, nIds),
                              Prefix(MetaPool, nMeta), index_type)
    IN  /\ Idle /\ rag = "none"
        /\ index' = r.store.index
        /\ doc_ids' = r.store.doc_ids
        /\ metadata' = r.store.metadata
        /\ lastOp' = Call("build_index", <<>>, 0, NoThreshold, r.raised, <<>>)
        /\ completed' = (completed \/ r.raised = None)
        /\ UNCHANGED <<disk, env_key, reqs, boot, rag, ask>>

---------------------------------------------------------------------------
(* faiss index.search: the k best labels (0-based positions) with scores *)

Positions(ix) == 0..(Len(ix.vecs) - 1)

ScoreAt(ix, q, p) == InnerProduct(ix.vecs[p + 1], q)

\* the score FAISS reports with the label -1
SentinelScore == 0 - (4 * ScoreOne)

\* the vectors a search compares with the query: all of them in an exact
\* index, those of the probed cluster in an approximate one
CandidateSets(ix) ==
    IF ix.type = "flat" THEN {Positions(ix)} ELSE SUBSET Positions(ix)

\* the rankings of the best Min(k, |C|) candidates by descending score; FAISS
\* does not document the order of equal scores
Rankings(ix, q, k, C) ==
    LET m == Min(k, Cardinality(C))
    IN  {s \in [1..m -> C] :
            /\ \A i, j \in 1..m :
                  i < j => s[i] # s[j] /\ ScoreAt(ix, q, s[i]) >= ScoreAt(ix, q, s[j])
            /\ \A p \in C \ Range(s) :
                  \A i \in 1..m : ScoreAt(ix, q, p) <= ScoreAt(ix, q, s[i])}

\* k rows (score, idx), padded with the label -1
Padded(ix, q, k, s) ==
    [i \in 1..k |->
        IF i <= Len(s) THEN [score |-> ScoreAt(ix, q, s[i]), idx |-> s[i]]
        ELSE [score |-> SentinelScore, idx |-> 0 - 1]]

IndexSearch(ix, q, k) ==
    {Padded(ix, q, k, s) : s \in UNION {Rankings(ix, q, k, C) : C \in CandidateSets(ix)}}

---------------------------------------------------------------------------
(* VectorStore.search *)

\* a variant of BelowThreshold that also drops a score equal to the threshold
BelowThreshold_Inclusive(score, score_threshold) ==
    score_threshold # NoThreshold /\ score <= score_threshold[1]

\* a variant of BelowThreshold that treats the threshold as an upper limit
BelowThreshold_Reversed(score, score_threshold) ==
    score_threshold # NoThreshold /\ score > score_threshold[1]

BelowThreshold(score, score_threshold) ==
    score_threshold # NoThreshold /\ score < score_threshold[1]

\* a variant of InvalidIndex without the test for the label -1
InvalidIndex_NoSentinel(st, idx) == idx >= Len(st.doc_ids)

InvalidIndex(st, idx) == idx < 0 \/ idx >= Len(st.doc_ids)

\* Python list indexing: 0-based, a negative index counts from the end
InRange(list, idx) == idx < Len(list) /\ idx >= 0 - Len(list)
PyIndex(list, idx) == IF idx < 0 THEN list[Len(list) + idx + 1] ELSE list[idx + 1]

\* the loop over the rows of one FAISS answer
FormatResults(st, rows, score_threshold) ==
    LET kept == SelectSeq(rows, LAMBDA r :
                    ~BelowThreshold(r.score, score_threshold) /\ ~InvalidIndex(st, r.idx))
    IN  IF \E i \in DOMAIN kept :
              ~InRange(st.doc_ids, kept[i].idx) \/ ~InRange(st.metadata, kept[i].idx)
        THEN [raised |-> "IndexError", results |-> <<>>]
        ELSE [raised |-> None,
              results |-> [i \in DOMAIN kept |->
                              [doc_id |-> PyIndex(st.doc_ids, kept[i].idx),
                               score |-> kept[i].score,
                               metadata |-> PyIndex(st.metadata, kept[i].idx)]]]

\* k is handed to index.search as it is.  FAISS releases that check k > 0
\* raise; the others size their answer with k: no row at all for k = 0 (which
\* is the outcome `empty`), an error of the array allocation for k < 0
NonPositiveK(k, empty) ==
    {[raised |-> "AssertionError", results |-> <<>>]}
        \cup (IF k = 0 THEN {empty} ELSE {[raised |-> "ValueError", results |-> <<>>]})

\* a variant of SearchOutcomes without the test of lines 95-96: the call of
\* search on None is then Python's AttributeError
SearchOutcomes_Unchecked(st, query_embedding, k, score_threshold) ==
    IF st.index.type = None
    THEN {[raised |-> "AttributeError", results |-> <<>>]}
    ELSE IF Len(query_embedding) # st.index.d
    THEN {[raised |-> "AssertionError", results |-> <<>>]}
    ELSE IF k <= 0
    THEN NonPositiveK(k, FormatResults(st, <<>>, score_threshold))
    ELSE {FormatResults(st, rows, score_threshold) :
              rows \in IndexSearch(st.index, NormalizeL2(query_embedding), k)}

\* the outcomes of search(query_embedding, k, score_threshold) on the store st
SearchOutcomes(st, query_embedding, k, score_threshold) ==
    IF st.index.type = None
    THEN {[raised |-> "ValueError", results |-> <<>>]}
    ELSE IF Len(query_embedding) # st.index.d
    THEN {[raised |-> "AssertionError", results |-> <<>>]}
    ELSE IF k <= 0
    THEN NonPositiveK(k, FormatResults(st, <<>>, score_threshold))
    ELSE {FormatResults(st, rows, score_threshold) :
              rows \in IndexSearch(st.index, NormalizeL2(query_embedding), k)}

Search(query_embedding, k, score_threshold) ==
    /\ Idle
    /\ ask.pc = "idle"
    /\ \E o \in SearchOutcomes(Store, query_embedding, k, score_threshold) :
        /\ lastOp' = Call("search", query_embedding, k, score_threshold,
                          o.raised, o.results)
        /\ UNCHANGED <<index, doc_ids, metadata, disk, env_key, reqs, boot, completed, rag, ask>>

---------------------------------------------------------------------------
(* VectorStore.batch_search *)

\* the query matrices handed to batch_search: one row alone, followed by
\* another row, and preceded by yet another
Batches == {<<VecB>>, <<VecB, VecC>>, <<VecD, VecB>>}

\* the loop over the rows of the FAISS answer to one query of the batch
BatchFormatRow(st, rows) ==
    LET kept == SelectSeq(rows, LAMBDA r : r.idx >= 0 /\ r.idx < Len(st.doc_ids))
    IN  IF \E i \in DOMAIN kept : ~InRange(st.metadata, kept[i].idx)
        THEN [raised |-> "IndexError", results |-> <<>>]
        ELSE [raised |-> None,
              results |-> [i \in DOMAIN kept |->
                              [doc_id |-> PyIndex(st.doc_ids, kept[i].idx),
                               score |-> kept[i].score,
                               metadata |-> PyIndex(st.metadata, kept[i].idx)]]]

\* the outer loop: one result list per query, or the first exception
BatchFormat(st, answer) ==
    LET per_query == [i \in DOMAIN answer |-> BatchFormatRow(st, answer[i])]
    IN  IF \E i \in DOMAIN answer : per_query[i].raised # None
        THEN [raised |-> "IndexError", results |-> <<>>]
        ELSE [raised |-> None,
              results |-> [i \in DOMAIN answer |-> per_query[i].results]]

\* a variant of BatchNormalize that leaves the query matrix as it is
BatchNormalize_Omitted(query_embeddings) == query_embeddings

\* the normalisation of the query matrix, row by row
BatchNormalize(query_embeddings) ==
    [i \in DOMAIN query_embeddings |-> NormalizeL2(query_embeddings[i])]

\* the answers of index.search to a matrix of queries: k rows for each
BatchIndexSearch(ix, queries, k) ==
    LET answers == [i \in DOMAIN queries |-> IndexSearch(ix, queries[i], k)]
    IN  {a \in [DOMAIN queries -> UNION Range(answers)] :
            \A i \in DOMAIN queries : a[i] \in answers[i]}

\* the outcomes of batch_search(query_embeddings, k) on the store st
BatchSearchOutcomes(st, query_embeddings, k) ==
    IF st.index.type = None
    THEN {[raised |-> "ValueError", results |-> <<>>]}
    ELSE IF \E i \in DOMAIN query_embeddings : Len(query_embeddings[i]) # st.index.d
    THEN {[raised |-> "AssertionError", results |-> <<>>]}
    ELSE IF k <= 0
    THEN NonPositiveK(k, BatchFormat(st, [i \in DOMAIN query_embeddings |-> <<>>]))
    ELSE {BatchFormat(st, a) :
              a \in BatchIndexSearch(st.index, BatchNormalize(query_embeddings), k)}

BatchSearch(query_embeddings, k) ==
    /\ Idle
    /\ ask.pc = "idle"
    /\ \E o \in BatchSearchOutcomes(Store, query_embeddings, k) :
        /\ lastOp' = Call("batch_search", query_embeddings, k, NoThreshold,
                          o.raised, o.results)
        /\ UNCHANGED <<index, doc_ids, metadata, disk, env_key, reqs, boot, completed, rag, ask>>

---------------------------------------------------------------------------
(* VectorStore.save and VectorStore.load *)

\* a variant of JsonDump that writes the title of each entry only
JsonDump_TitlesOnly(meta) ==
    [i \in DOMAIN meta |-> {<<"title", meta[i].title>>}]

\* json.dump of the metadata list: an array of objects, each object the
\* name/value pairs of one dict
JsonDump(meta) ==
    [i \in DOMAIN meta |-> {<<name, meta[i][name]>> : name \in DOMAIN meta[i]}]

\* json.load: each object becomes a dict again
JsonLoad(text) ==
    [i \in DOMAIN text |->
        [name \in {pair[1] : pair \in text[i]} |->
            (CHOOSE pair \in text[i] : pair[1] = name)[2]]]

SaveResult(st, dk) ==
    IF st.index.type = None
    THEN [disk |-> dk, raised |-> "TypeError"]
    ELSE [disk |-> [index |-> File(st.index), doc_ids |-> File(st.doc_ids),
                    metadata |-> File(JsonDump(st.metadata))],
          raised |-> None]

Save ==
    LET r == SaveResult(Store, disk)
    IN  /\ Idle /\ rag = "none"
        /\ disk' = r.disk
        /\ lastOp' = Call("save", <<>>, 0, NoThreshold, r.raised, <<>>)
        /\ UNCHANGED <<index, doc_ids, metadata, env_key, reqs, boot, completed, rag, ask>>

LoadResult(st, dk) ==
    IF ~dk.index.present
    THEN [store |-> st, raised |-> "RuntimeError"]
    ELSE IF ~dk.doc_ids.present
    THEN [store |-> [st EXCEPT !.index = dk.index.data],
          raised |-> "FileNotFoundError"]
    ELSE IF ~dk.metadata.present
    THEN [store |-> [st EXCEPT !.index = dk.index.data, !.doc_ids = dk.doc_ids.data],
          raised |-> "FileNotFoundError"]
    ELSE [store |-> [index |-> dk.index.data, doc_ids |-> dk.doc_ids.data,
                     metadata |-> JsonLoad(dk.metadata.data)],
          raised |-> None]

Load ==
    LET r == LoadResult(Store, disk)
    IN  /\ Idle /\ rag = "none"
        /\ index' = r.store.index
        /\ doc_ids' = r.store.doc_ids
        /\ metadata' = r.store.metadata
        /\ lastOp' = Call("load", <<>>, 0, NoThreshold, r.raised, <<>>)
        /\ completed' = (completed \/ r.raised = None)
        /\ UNCHANGED <<disk, env_key, reqs, boot, rag, ask>>

---------------------------------------------------------------------------
(* RAGService: inputs and collaborators *)

\* the questions asked, and the embedding model's vector for each
Queries == {"eviction", "termination", "consumer"}

Encode(query) ==
    IF query = "eviction" THEN VecB
    ELSE IF query = "termination" THEN VecC
    ELSE VecD

\* embedding_model.encode returns a vector or raises
EncodeOutcomes(query) ==
    {[raised |-> None, vec |-> Encode(query)],
     [raised |-> "RuntimeError", vec |-> <<>>]}

\* client.chat.completions.create returns a completion with text, returns a
\* completion whose content is None, or raises
LLMOutcomes ==
    {[kind |-> "text", content |-> <<" ", "Under Indian law", " ">>, msg |-> ""],
     [kind |-> "text", content |-> <<"Under Indian law">>, msg |-> ""],
     [kind |-> "null", content |-> <<>>,
      msg |-> "'NoneType' object has no attribute 'strip'"],
     [kind |-> "raise", content |-> <<>>, msg |-> "rate limit exceeded"]}

\* str.strip on a text of tokens: drop the blanks at both ends
RECURSIVE LStrip(_)
LStrip(t) == IF t # <<>> /\ Head(t) = " " THEN LStrip(Tail(t)) ELSE t

RECURSIVE RStrip(_)
RStrip(t) ==
    IF t # <<>> /\ t[Len(t)] = " " THEN RStrip(SubSeq(t, 1, Len(t) - 1)) ELSE t

Strip(t) == RStrip(LStrip(t))

\* the files data/raw/<doc_id>.json: the length of the judgment text, or no
\* file, or a file that cannot be parsed
TextBudget == 2000

RawDocument(doc_id) ==
    IF doc_id % 6 = 1 THEN [exists |-> TRUE, readable |-> TRUE, length |-> TextBudget + 500]
    ELSE IF doc_id % 6 = 2 THEN [exists |-> FALSE, readable |-> FALSE, length |-> 0]
    ELSE IF doc_id % 6 = 3 THEN [exists |-> TRUE, readable |-> FALSE, length |-> 0]
    ELSE IF doc_id % 6 = 4 THEN [exists |-> TRUE, readable |-> TRUE, length |-> TextBudget]
    ELSE IF doc_id % 6 = 5 THEN [exists |-> TRUE, readable |-> TRUE, length |-> TextBudget + 1]
    ELSE [exists |-> TRUE, readable |-> TRUE, length |-> 10]

\* dict.get(key, 'Unknown')
Get(meta, key) == IF key \in DOMAIN meta THEN meta[key] ELSE "Unknown"

\* a score rounded to three decimals (round(x, 3) and the format :.3f)
Round3(score) ==
    LET step == ScoreOne \div 1000
    IN  IF score >= 0 THEN ((score + step \div 2) \div step) * step
        ELSE 0 - ((((0 - score) + step \div 2) \div step) * step)

---------------------------------------------------------------------------
(* RAGService.format_context *)

\* a variant of JudgmentText that cuts a text of exactly the budget as well
JudgmentText_Inclusive(doc_id) ==
    LET f == RawDocument(doc_id)
    IN  IF ~f.exists THEN [source |-> "empty", chars |-> 0, marker |-> FALSE]
        ELSE IF ~f.readable THEN [source |-> "[Error loading judgment text]",
                                  chars |-> 0, marker |-> FALSE]
        ELSE IF f.length >= TextBudget
        THEN [source |-> "doc", chars |-> TextBudget, marker |-> TRUE]
        ELSE [source |-> "doc", chars |-> f.length, marker |-> FALSE]

\* the judgment excerpt of one document: the characters taken from the text
\* of document doc_id and the marker appended to them; judgment_text stays ""
\* when the file does not exist
JudgmentText(doc_id) ==
    LET f == RawDocument(doc_id)
    IN  IF ~f.exists THEN [source |-> "empty", chars |-> 0, marker |-> FALSE]
        ELSE IF ~f.readable THEN [source |-> "[Error loading judgment text]",
                                  chars |-> 0, marker |-> FALSE]
        ELSE IF f.length > TextBudget
        THEN [source |-> "doc", chars |-> TextBudget, marker |-> TRUE]
        ELSE [source |-> "doc", chars |-> f.length, marker |-> FALSE]

\* a variant of FormatContext that numbers the blocks from 0
FormatContext_ZeroBased(retrieved_docs) ==
    IF retrieved_docs = <<>>
    THEN <<[ordinal |-> 0, title |-> "No relevant case law found.", court |-> "",
            date |-> "", casenumber |-> "", score |-> 0, doc_id |-> 0,
            text |-> [source |-> "empty", chars |-> 0, marker |-> FALSE]]>>
    ELSE [i \in DOMAIN retrieved_docs |->
            [ordinal |-> i - 1,
             title |-> Get(retrieved_docs[i].metadata, "title"),
             court |-> Get(retrieved_docs[i].metadata, "court"),
             date |-> Get(retrieved_docs[i].metadata, "date"),
             casenumber |-> Get(retrieved_docs[i].metadata, "casenumber"),
             score |-> Round3(retrieved_docs[i].score),
             doc_id |-> retrieved_docs[i].doc_id,
             text |-> JudgmentText(retrieved_docs[i].doc_id)]]

FormatContext(retrieved_docs) ==
    IF retrieved_docs = <<>>
    THEN <<[ordinal |-> 0, title |-> "No relevant case law found.", court |-> "",
            date |-> "", casenumber |-> "", score |-> 0, doc_id |-> 0,
            text |-> [source |-> "empty", chars |-> 0, marker |-> FALSE]]>>
    ELSE [i \in DOMAIN retrieved_docs |->
            [ordinal |-> i,
             title |-> Get(retrieved_docs[i].metadata, "title"),
             court |-> Get(retrieved_docs[i].metadata, "court"),
             date |-> Get(retrieved_docs[i].metadata, "date"),
             casenumber |-> Get(retrieved_docs[i].metadata, "casenumber"),
             score |-> Round3(retrieved_docs[i].score),
             doc_id |-> retrieved_docs[i].doc_id,
             text |-> JudgmentText(retrieved_docs[i].doc_id)]]

---------------------------------------------------------------------------
(* RAGService._format_citation and RAGService.generate_answer *)

FormatCitation(doc) ==
    [title |-> Get(doc.metadata, "title"),
     court |-> Get(doc.metadata, "court"),
     date |-> Get(doc.metadata, "date"),
     case_number |-> Get(doc.metadata, "casenumber"),
     relevance_score |-> Round3(doc.score),
     doc_id |-> doc.doc_id]

\* a variant of Citations that lists the citations last hit first
Citations_Reversed(retrieved_docs) ==
    [i \in DOMAIN retrieved_docs |->
        FormatCitation(retrieved_docs[Len(retrieved_docs) + 1 - i])]

\* a variant of Citations that cites only the hits above the retrieval threshold
Citations_AboveThreshold(retrieved_docs) ==
    LET cited == SelectSeq(retrieved_docs, LAMBDA d : d.score >= SimilarityThreshold)
    IN  [i \in DOMAIN cited |-> FormatCitation(cited[i])]

Citations(retrieved_docs) ==
    [i \in DOMAIN retrieved_docs |-> FormatCitation(retrieved_docs[i])]

LowCutoff == (55 * ScoreOne) \div 100       \* best_score < 0.55
MediumCutoff == (55 * ScoreOne) \div 100    \* best_score > 0.55
HighCutoff == (65 * ScoreOne) \div 100      \* best_score > 0.65

LLMModel == "llama-3.3-70b-versatile"

NoMatchAnswer == <<"I couldn't find relevant case law in my database for your question.">>
LowErrorAnswer == <<"I found limited relevant cases and encountered an error. Please rephrase your question.">>
HighErrorAnswer == <<"I encountered an error while processing your question. Please try again.">>
LowWarning == "Limited case law matches. This response uses general legal knowledge. Consult a lawyer for specific advice."
Suggestion == "Try rephrasing your question or search on indiankanoon.org"

\* a variant of ConfidenceLabel whose "high" boundary is inclusive
ConfidenceLabel_Inclusive(best_score) ==
    IF best_score >= HighCutoff THEN "high"
    ELSE IF best_score > MediumCutoff THEN "medium"
    ELSE "low"

\* the label the high-confidence branch derives from the best score
ConfidenceLabel(best_score) ==
    IF best_score > HighCutoff THEN "high"
    ELSE IF best_score > MediumCutoff THEN "medium"
    ELSE "low"

Prompt(template, query, retrieved_docs, temperature, max_tokens) ==
    [template |-> template, query |-> query, context |-> FormatContext(retrieved_docs),
     temperature |-> temperature, max_tokens |-> max_tokens]

\* a variant of NoMatchResult that sends the hedged prompt with no context
NoMatchResult_CallsModel(query) ==
    [response |-> [answer |-> NoMatchAnswer, confidence |-> "low",
                   citations |-> <<>>, suggestion |-> Suggestion],
     prompts |-> <<Prompt("hedged", query, <<>>, 5, 500)>>]

\* the return for an empty hit list: the dict and the prompts sent (none)
NoMatchResult(query) ==
    [response |-> [answer |-> NoMatchAnswer, confidence |-> "low",
                   citations |-> <<>>, suggestion |-> Suggestion],
     prompts |-> <<>>]

\* a variant of ErrorResponse that shows the exception text as the answer
ErrorResponse_LeaksError(error, answer, retrieved_docs) ==
    [error |-> error, answer |-> error, confidence |-> "error", citations |-> <<>>]

\* a variant of ErrorResponse that cites the hits next to the error
ErrorResponse_KeepsCitations(error, answer, retrieved_docs) ==
    [error |-> error, answer |-> answer, confidence |-> "error",
     citations |-> Citations(retrieved_docs)]

\* the dict returned by an except branch
ErrorResponse(error, answer, retrieved_docs) ==
    [error |-> error, answer |-> answer, confidence |-> "error", citations |-> <<>>]

\* a variant of GenerateAnswerResult that sends the prompt of the structured
\* tier a second time when the generation call fails
GenerateAnswerResult_Retry(query, retrieved_docs, llm) ==
    IF retrieved_docs = <<>>
    THEN NoMatchResult(query)
    ELSE LET best_score == retrieved_docs[1].score
         IN  IF best_score < LowCutoff
             THEN [response |->
                      IF llm.kind = "text"
                      THEN [answer |-> Strip(llm.content), confidence |-> "low",
                            citations |-> Citations(retrieved_docs),
                            warning |-> LowWarning]
                      ELSE ErrorResponse(<<llm.msg>>, LowErrorAnswer, retrieved_docs),
                   prompts |-> <<Prompt("hedged", query, retrieved_docs, 5, 500)>>]
             ELSE [response |->
                      IF llm.kind = "text"
                      THEN [answer |-> Strip(llm.content),
                            confidence |-> ConfidenceLabel(best_score),
                            citations |-> Citations(retrieved_docs),
                            model |-> LLMModel,
                            retrieved_cases |-> Len(retrieved_docs)]
                      ELSE ErrorResponse(<<"Error generating answer: ", llm.msg>>,
                                         HighErrorAnswer, retrieved_docs),
                   prompts |->
                      IF llm.kind = "text"
                      THEN <<Prompt("structured", query, retrieved_docs, 3, 1000)>>
                      ELSE <<Prompt("structured", query, retrieved_docs, 3, 1000),
                             Prompt("structured", query, retrieved_docs, 3, 1000)>>]

\* generate_answer(query, retrieved_docs) when the generation call, if one is
\* made, has the outcome llm: the dict returned and the prompts sent
GenerateAnswerResult(query, retrieved_docs, llm) ==
    IF retrieved_docs = <<>>
    THEN NoMatchResult(query)
    ELSE LET best_score == retrieved_docs[1].score
         IN  IF best_score < LowCutoff
             THEN [response |->
                      IF llm.kind = "text"
                      THEN [answer |-> Strip(llm.content), confidence |-> "low",
                            citations |-> Citations(retrieved_docs),
                            warning |-> LowWarning]
                      ELSE ErrorResponse(<<llm.msg>>, LowErrorAnswer, retrieved_docs),
                   prompts |-> <<Prompt("hedged", query, retrieved_docs, 5, 500)>>]
             ELSE [response |->
                      IF llm.kind = "text"
                      THEN [answer |-> Strip(llm.content),
                            confidence |-> ConfidenceLabel(best_score),
                            citations |-> Citations(retrieved_docs),
                            model |-> LLMModel,
                            retrieved_cases |-> Len(retrieved_docs)]
                      ELSE ErrorResponse(<<"Error generating answer: ", llm.msg>>,
                                         HighErrorAnswer, retrieved_docs),
                   prompts |-> <<Prompt("structured", query, retrieved_docs, 3, 1000)>>]

---------------------------------------------------------------------------
(* RAGService: construction, ask and generate_answer as calls *)

NoResponse == [confidence |-> "none"]

\* no generation call was made
NoLLM == [kind |-> "none", content |-> <<>>, msg |-> ""]

\* a variant of WithQuery that leaves the response as generate_answer made it
WithQuery_Dropped(response, query) == response

\* response["query"] = query
WithQuery(response, query) == ("query" :> query) @@ response

\* the record of a RAGService call
\*   pc: "idle", "retrieved" (ask has its documents and has yet to generate),
\*       "returned" (the call returned response) or "raised" (an exception
\*       left the call)
\*   stages: the stages of the pipeline in the order they were entered
AskIdle ==
    [pc |-> "idle", entry |-> "none", query |-> "", top_k |-> 0, llm |-> NoLLM,
     retrieved_docs |-> <<>>, embed_calls |-> 0, prompts |-> <<>>,
     response |-> NoResponse, raised |-> None, stages |-> <<>>]

\* the stages retrieve_documents entered: the search follows the embedding
\* call unless that call raised
RetrieveStages(o) ==
    IF o.raised = "RuntimeError" THEN <<"embed">> ELSE <<"embed", "search">>

\* the stages generate_answer entered: format_context, then one generation
\* call for each prompt sent
GenerateStages(g) ==
    IF g.prompts = <<>> THEN <<>>
    ELSE <<"context">> \o [i \in DOMAIN g.prompts |-> "generate"]

FreshStore == [index |-> NoIndex, doc_ids |-> <<>>, metadata |-> <<>>]

\* RAGService.__init__: a new VectorStore is loaded from disk, then the
\* credential is read; an exception leaves the process without a service
RAGInit ==
    /\ rag = "none"
    /\ Idle
    /\ LET r == LoadResult(FreshStore, disk)
           failure == IF r.raised # None THEN r.raised
                      ELSE IF ~env_key THEN "ValueError" ELSE None
       IN  IF failure # None
           THEN /\ lastOp' = Call("RAGService", <<>>, 0, NoThreshold, failure, <<>>)
                /\ UNCHANGED <<index, doc_ids, metadata, rag, completed>>
           ELSE /\ index' = r.store.index
                /\ doc_ids' = r.store.doc_ids
                /\ metadata' = r.store.metadata
                /\ rag' = "ready"
                /\ completed' = TRUE
                /\ lastOp' = Call("RAGService", <<>>, 0, NoThreshold, None, <<>>)
    /\ UNCHANGED <<disk, env_key, reqs, boot, ask>>

\* a variant of RetrieveOutcomes that searches without the threshold
RetrieveOutcomes_NoThreshold(st, query, top_k) ==
    UNION {IF e.raised # None
           THEN {[raised |-> e.raised, results |-> <<>>]}
           ELSE SearchOutcomes(st, e.vec, top_k, NoThreshold) :
           e \in EncodeOutcomes(query)}

\* a variant of RetrieveOutcomes whose threshold differs from call to call
RetrieveOutcomes_Unstable(st, query, top_k) ==
    UNION {IF e.raised # None
           THEN {[raised |-> e.raised, results |-> <<>>]}
           ELSE SearchOutcomes(st, e.vec, top_k, Some(SimilarityThreshold))
                  \cup SearchOutcomes(st, e.vec, top_k, Some((60 * ScoreOne) \div 100)) :
           e \in EncodeOutcomes(query)}

\* retrieve_documents(query, top_k): the outcomes of the embedding call
\* followed by the search with the configured threshold
RetrieveOutcomes(st, query, top_k) ==
    UNION {IF e.raised # None
           THEN {[raised |-> e.raised, results |-> <<>>]}
           ELSE SearchOutcomes(st, e.vec, top_k, Some(SimilarityThreshold)) :
           e \in EncodeOutcomes(query)}

\* ask, up to the return of retrieve_documents
AskRetrieve(query, top_k) ==
    /\ rag = "ready"
    /\ Idle
    /\ ask.pc = "idle"
    /\ \E o \in RetrieveOutcomes(Store, query, top_k) :
          ask' = [AskIdle EXCEPT !.entry = "ask", !.query = query, !.top_k = top_k,
                                 !.embed_calls = 1,
                                 !.pc = IF o.raised = None THEN "retrieved" ELSE "raised",
                                 !.raised = o.raised,
                                 !.stages = RetrieveStages(o),
                                 !.retrieved_docs = o.results]
    /\ UNCHANGED <<index, doc_ids, metadata, disk, lastOp, env_key, reqs, boot, completed, rag>>

\* ask, from generate_answer to its return
AskGenerate ==
    /\ ask.pc = "retrieved"
    /\ \E llm \in LLMOutcomes :
          LET g == GenerateAnswerResult(ask.query, ask.retrieved_docs, llm)
          IN  ask' = [ask EXCEPT !.pc = "returned",
                                 !.llm = IF g.prompts = <<>> THEN NoLLM ELSE llm,
                                 !.prompts = g.prompts,
                                 !.stages = ask.stages \o GenerateStages(g),
                                 !.response = WithQuery(g.response, ask.query)]
    /\ UNCHANGED <<index, doc_ids, metadata, disk, lastOp, env_key, reqs, boot, completed, rag>>

\* hit lists handed to generate_answer directly, with scores on and around
\* the tier boundaries
Hit(id, score) == [doc_id |-> id, score |-> score, metadata |-> MetaPool[id]]

BoundaryScores ==
    {LowCutoff - 1000, LowCutoff, LowCutoff + 1, HighCutoff, HighCutoff + 1, 0 - HighCutoff}

SyntheticHits ==
    {<<>>} \cup {<<Hit(1, s)>> : s \in BoundaryScores}
           \cup {<<Hit(2, s), Hit(1, s - 2000000)>> : s \in BoundaryScores}
           \cup {<<Hit(4, HighCutoff + 1), Hit(5, HighCutoff)>>,
                 <<Hit(3, LowCutoff - 1000), Hit(6, LowCutoff - 2000)>>}

\* generate_answer(query, retrieved_docs) called on its own
GenerateAnswer(query, retrieved_docs) ==
    /\ rag = "ready"
    /\ Idle
    /\ ask.pc = "idle"
    /\ \E llm \in LLMOutcomes :
          LET g == GenerateAnswerResult(query, retrieved_docs, llm)
          IN  ask' = [AskIdle EXCEPT !.entry = "generate_answer", !.query = query,
                                     !.pc = "returned",
                                     !.llm = IF g.prompts = <<>> THEN NoLLM ELSE llm,
                                     !.retrieved_docs = retrieved_docs,
                                     !.prompts = g.prompts,
                                     !.stages = GenerateStages(g),
                                     !.response = g.response]
    /\ UNCHANGED <<index, doc_ids, metadata, disk, lastOp, env_key, reqs, boot, completed, rag>>

\* the caller takes the response or the exception
AskReturn ==
    /\ ask.pc \in {"returned", "raised"}
    /\ ask' = AskIdle
    /\ UNCHANGED <<index, doc_ids, metadata, disk, lastOp, env_key, reqs, boot, completed, rag>>

---------------------------------------------------------------------------
(* backend/main.py: the lazily constructed service and the /ask handler *)

MaxInFlight == 2
Requests == 1..MaxInFlight

\* top_k of the requests
TopKs == 1..MaxK

\* the record of one /ask request
\*   pc: "none" (free slot), "accepted", "constructing" (inside RAGService()),
\*       "service" (get_rag_service returned), "retrieved", "done"
\*   status: 200 with response, or 500 with detail = the exception
NoRequest ==
    [pc |-> "none", query |-> "", top_k |-> 0, retrieved_docs |-> <<>>,
     llm |-> NoLLM, prompts |-> <<>>, response |-> NoResponse,
     status |-> 0, detail |-> None]

\* the RAGService object under construction: the request whose handler runs
\* the constructor, the step it is at and the VectorStore of the new object
NoBoot == [by |-> 0, step |-> "none", store |-> FreshStore]

\* except Exception as e: raise HTTPException(status_code=500, detail=str(e))
Failed(req, exception) == [req EXCEPT !.pc = "done", !.status = 500, !.detail = exception]

\* a variant of NeedsConstruction that constructs a service for every request
NeedsConstruction_Always(rs) == TRUE

\* get_rag_service: if rag_service is None
NeedsConstruction(rs) == rs = "none"

\* a variant of ServiceAfterCall that drops the service after a failed call
ServiceAfterCall_DropsOnError(rs, llm) == IF llm.kind = "text" THEN rs ELSE "none"

\* the global rag_service after generate_answer: the except branches return a
\* dict, no attribute of the service and no global is assigned
ServiceAfterCall(rs, llm) == rs

\* the files under data/processed when the server starts: flat indexes saved
\* by the offline build, and a directory whose metadata file is missing
EmptyDisk ==
    [index |-> [present |-> FALSE, data |-> NoIndex],
     doc_ids |-> NoFile, metadata |-> NoFile]

Persisted(e) ==
    SaveResult(BuildIndexResult(FreshStore, e, Prefix(IdPool, Len(e)),
                                Prefix(MetaPool, Len(e)), "flat").store,
               EmptyDisk).disk

ServerDisks ==
    {Persisted(<<VecC, VecA>>), Persisted(<<VecC>>),
     [Persisted(<<VecC>>) EXCEPT !.metadata = NoFile]}

\* POST /ask arrives
Arrive(r, query, top_k) ==
    /\ reqs[r].pc = "none"
    /\ reqs' = [reqs EXCEPT ![r] = [NoRequest EXCEPT !.pc = "accepted",
                                                     !.query = query,
                                                     !.top_k = top_k]]
    /\ UNCHANGED <<index, doc_ids, metadata, disk, lastOp, env_key, rag, ask,
                   completed, boot>>

\* get_rag_service, up to the call of RAGService(); the handlers are
\* coroutines without an await, so a handler that has entered get_rag_service
\* is not interleaved with another one before the global is assigned
GetRagService(r) ==
    /\ reqs[r].pc = "accepted"
    /\ boot.by = 0
    /\ IF NeedsConstruction(rag)
       THEN /\ boot' = [by |-> r, step |-> "load", store |-> FreshStore]
            /\ reqs' = [reqs EXCEPT ![r].pc = "constructing"]
       ELSE /\ reqs' = [reqs EXCEPT ![r].pc = "service"]
            /\ UNCHANGED boot
    /\ UNCHANGED <<index, doc_ids, metadata, disk, lastOp, env_key, rag, ask, completed>>

\* RAGService.__init__: self.vector_store = VectorStore(); load(path)
ConstructLoad(r) ==
    /\ boot.by = r
    /\ boot.step = "load"
    /\ LET l == LoadResult(FreshStore, disk)
       IN  IF l.raised # None
           THEN /\ reqs' = [reqs EXCEPT ![r] = Failed(reqs[r], l.raised)]
                /\ boot' = NoBoot
           ELSE /\ boot' = [boot EXCEPT !.step = "key", !.store = l.store]
                /\ UNCHANGED reqs
    /\ UNCHANGED <<index, doc_ids, metadata, disk, lastOp, env_key, rag, ask, completed>>

\* RAGService.__init__ from os.getenv to its end, and the assignment
\* rag_service = RAGService() in get_rag_service
ConstructFinish(r) ==
    /\ boot.by = r
    /\ boot.step = "key"
    /\ IF ~env_key
       THEN /\ reqs' = [reqs EXCEPT ![r] = Failed(reqs[r], "ValueError")]
            /\ UNCHANGED <<index, doc_ids, metadata, rag, completed>>
       ELSE /\ index' = boot.store.index
            /\ doc_ids' = boot.store.doc_ids
            /\ metadata' = boot.store.metadata
            /\ rag' = "ready"
            /\ completed' = TRUE
            /\ reqs' = [reqs EXCEPT ![r].pc = "service"]
    /\ boot' = NoBoot
    /\ UNCHANGED <<disk, lastOp, env_key, ask>>

\* rag.ask, up to the return of retrieve_documents
ReqRetrieve(r) ==
    /\ reqs[r].pc = "service"
    /\ \E o \in RetrieveOutcomes(Store, reqs[r].query, reqs[r].top_k) :
          reqs' = [reqs EXCEPT ![r] =
                      IF o.raised # None THEN Failed(reqs[r], o.raised)
                      ELSE [reqs[r] EXCEPT !.pc = "retrieved",
                                           !.retrieved_docs = o.results]]
    /\ UNCHANGED <<index, doc_ids, metadata, disk, lastOp, env_key, rag, ask,
                   completed, boot>>

\* rag.ask from generate_answer to its return, and the handler's return
ReqGenerate(r) ==
    /\ reqs[r].pc = "retrieved"
    /\ \E llm \in LLMOutcomes :
          LET g == GenerateAnswerResult(reqs[r].query, reqs[r].retrieved_docs, llm)
          IN  /\ reqs' = [reqs EXCEPT ![r] =
                            [reqs[r] EXCEPT !.pc = "done", !.status = 200,
                                            !.llm = IF g.prompts = <<>> THEN NoLLM ELSE llm,
                                            !.prompts = g.prompts,
                                            !.response = WithQuery(g.response, reqs[r].query)]]
              /\ rag' = ServiceAfterCall(rag, IF g.prompts = <<>> THEN [kind |-> "text"] ELSE llm)
    /\ UNCHANGED <<index, doc_ids, metadata, disk, lastOp, env_key, ask, completed, boot>>

\* the client takes the response; the slot is free for a later request
ReqRespond(r) ==
    /\ reqs[r].pc = "done"
    /\ reqs' = [reqs EXCEPT ![r] = NoRequest]
    /\ UNCHANGED <<index, doc_ids, metadata, disk, lastOp, env_key, rag, ask,
                   completed, boot>>

---------------------------------------------------------------------------
(* Specification *)

vars == <<index, doc_ids, metadata, disk, lastOp, env_key, rag, ask, completed,
          reqs, boot>>

Init ==
    /\ index = NoIndex
    /\ doc_ids = <<>>
    /\ metadata = <<>>
    /\ disk = [index |-> [present |-> FALSE, data |-> NoIndex],
               doc_ids |-> NoFile, metadata |-> NoFile]
    /\ lastOp = Call("idle", <<>>, 0, NoThreshold, None, <<>>)
    /\ env_key \in BOOLEAN
    /\ rag = "none"
    /\ ask = AskIdle
    /\ completed = FALSE
    /\ reqs = [r \in Requests |-> NoRequest]
    /\ boot = NoBoot

Next ==
    \/ \E e \in Corpora :
          \E ni \in {Len(e) - 1, Len(e)}, nm \in {Len(e), Len(e) + 1}, t \in IndexTypes :
              BuildIndex(e, ni, nm, t)
    \/ \E q \in QueryVectors, k \in 0..MaxK, t \in Thresholds : Search(q, k, t)
    \/ Save
    \/ Load
    \/ Return
    \/ RAGInit
    \/ \E q \in Queries, k \in 0..MaxK : AskRetrieve(q, k)
    \/ AskGenerate
    \/ \E docs \in SyntheticHits : GenerateAnswer("eviction", docs)
    \/ AskReturn

Spec == Init /\ [][Next]_vars

\* the offline use of one VectorStore, batch_search included
NextStore ==
    \/ \E e \in Corpora :
          \E ni \in {Len(e) - 1, Len(e)}, nm \in {Len(e), Len(e) + 1}, t \in IndexTypes :
              BuildIndex(e, ni, nm, t)
    \/ \E q \in QueryVectors, k \in 0..MaxK : Search(q, k, NoThreshold)
    \/ \E b \in Batches, k \in 0..MaxK : BatchSearch(b, k)
    \/ Save
    \/ Load
    \/ Return

SpecStore == Init /\ [][NextStore]_vars

\* the server process: started on a persisted store, with or without the
\* credential, it takes /ask requests
InitBackend ==
    /\ index = NoIndex
    /\ doc_ids = <<>>
    /\ metadata = <<>>
    /\ disk \in ServerDisks
    /\ lastOp = Call("idle", <<>>, 0, NoThreshold, None, <<>>)
    /\ env_key \in BOOLEAN
    /\ rag = "none"
    /\ ask = AskIdle
    /\ completed = FALSE
    /\ reqs = [r \in Requests |-> NoRequest]
    /\ boot = NoBoot

NextBackend ==
    \/ \E r \in Requests, q \in Queries, k \in TopKs : Arrive(r, q, k)
    \/ \E r \in Requests : GetRagService(r)
    \/ \E r \in Requests : ConstructLoad(r)
    \/ \E r \in Requests : ConstructFinish(r)
    \/ \E r \in Requests : ReqRetrieve(r)
    \/ \E r \in Requests : ReqGenerate(r)
    \/ \E r \in Requests : ReqRespond(r)

SpecBackend == InitBackend /\ [][NextBackend]_vars

---------------------------------------------------------------------------
(* Properties of RAGService.generate_answer and RAGService.ask *)

Returned == ask.pc = "returned"
GenerationSucceeded == ask.llm.kind = "text"
GenerationFailed == ask.llm.kind \in {"raise", "null"}
TopScore == ask.retrieved_docs[1].score
ConfidenceValues == {"high", "medium", "low", "error"}

\* C1: when retrieval returns zero hits, the response is the fixed fallback
\* answer with confidence "low", no citations and a suggestion, and no
\* generation call was made for it.
C1_NoMatchFallback ==
    (Returned /\ ask.retrieved_docs = <<>>) =>
        /\ ask.response.answer = NoMatchAnswer
        /\ ask.response.confidence = "low"
        /\ ask.response.citations = <<>>
        /\ "suggestion" \in DOMAIN ask.response
        /\ ask.response.suggestion = Suggestion
        /\ Len(ask.prompts) = 0
        /\ ask.llm = NoLLM

C1_Witness ==
    /\ Returned
    /\ ask.entry = "ask"
    /\ ask.retrieved_docs = <<>>
    /\ ask.response.confidence = "low"

\* C2 (as claimed): for every top score >= 0.55 with a successful generation
\* call the structured template is used and the label is "medium" or "high",
\* never "low"; a top score of exactly 0.55 is labelled "medium".
C2_HighTierNeverLow ==
    (Returned /\ ask.retrieved_docs # <<>> /\ GenerationSucceeded) =>
        (TopScore >= LowCutoff =>
            /\ ask.prompts[1].template = "structured"
            /\ ask.response.confidence \in {"medium", "high"}
            /\ (TopScore = LowCutoff => ask.response.confidence = "medium"))

\* C3: in the high-confidence tier with a successful generation call the label
\* is "high" exactly when the top score is > 0.65, and "medium" when
\* 0.55 < top score <= 0.65.
C3_HighMediumLabel ==
    (Returned /\ ask.retrieved_docs # <<>> /\ GenerationSucceeded
        /\ ask.prompts[1].template = "structured") =>
        /\ (ask.response.confidence = "high" <=> TopScore > HighCutoff)
        /\ ((TopScore > LowCutoff /\ TopScore <= HighCutoff) =>
                ask.response.confidence = "medium")

C3_Witness ==
    /\ Returned
    /\ GenerationSucceeded
    /\ ask.retrieved_docs # <<>>
    /\ TopScore = HighCutoff
    /\ ask.response.confidence = "medium"

\* C4: for a non-empty hit list whose top score is < 0.55 the hedged prompt is
\* used, and a successful generation call gives confidence "low", a warning
\* and one citation per retrieved hit whatever the hits' scores.
C4_LowTier ==
    (Returned /\ ask.retrieved_docs # <<>>) =>
        (TopScore < LowCutoff =>
            /\ Len(ask.prompts) = 1
            /\ ask.prompts[1].template = "hedged"
            /\ GenerationSucceeded =>
                  /\ ask.response.confidence = "low"
                  /\ "warning" \in DOMAIN ask.response
                  /\ ask.response.warning = LowWarning
                  /\ ask.response.warning # ""
                  /\ Len(ask.response.citations) = Len(ask.retrieved_docs)
                  /\ \A i \in DOMAIN ask.retrieved_docs :
                        ask.response.citations[i] = FormatCitation(ask.retrieved_docs[i]))

C4_Witness ==
    /\ Returned
    /\ GenerationSucceeded
    /\ Len(ask.retrieved_docs) = 2
    /\ TopScore = LowCutoff - 1000
    /\ ask.retrieved_docs[2].score < SimilarityThreshold
    /\ Len(ask.response.citations) = 2

\* C5: an exception of the generation call, in either tier, is caught: the
\* call returns confidence "error", no citations, a fixed apology that does
\* not contain the exception text, and the exception text in the error field.
C5_GenerationErrorCaught ==
    GenerationFailed =>
        /\ Returned
        /\ ask.raised = None
        /\ ask.response.confidence = "error"
        /\ ask.response.citations = <<>>
        /\ ask.response.answer \in {LowErrorAnswer, HighErrorAnswer}
        /\ ask.llm.msg \notin Range(ask.response.answer)
        /\ "error" \in DOMAIN ask.response
        /\ ask.llm.msg \in Range(ask.response.error)

C5_Witness ==
    /\ Returned
    /\ ask.entry = "ask"
    /\ ask.llm.kind = "raise"
    /\ ask.prompts[1].template = "structured"
    /\ ask.response.confidence = "error"

\* C6 (as claimed): whatever step of ask fails, the caller receives a response
\* and never an exception.
C6_AskNeverRaises ==
    ask.entry = "ask" => (ask.pc # "raised" /\ ask.raised = None)

\* C7: after a successful generation call the citations have the length of
\* the hit list and citation i carries the doc_id of hit i, the hit of block i
\* of the context.
C7_CitationsFollowHits ==
    (Returned /\ GenerationSucceeded) =>
        /\ Len(ask.response.citations) = Len(ask.retrieved_docs)
        /\ Len(ask.prompts[1].context) = Len(ask.retrieved_docs)
        /\ \A i \in DOMAIN ask.retrieved_docs :
              /\ ask.response.citations[i].doc_id = ask.retrieved_docs[i].doc_id
              /\ ask.prompts[1].context[i].doc_id = ask.retrieved_docs[i].doc_id

C7_Witness ==
    /\ Returned
    /\ ask.entry = "ask"
    /\ GenerationSucceeded
    /\ Len(ask.retrieved_docs) = 2
    /\ ask.response.citations[1].doc_id # ask.response.citations[2].doc_id

\* C8 (as claimed): every response returned by ask, in every tier, contains
\* query, answer, confidence, citations, model and retrieved_cases.
C8_AllFieldsInEveryTier ==
    (Returned /\ ask.entry = "ask") =>
        /\ {"query", "answer", "confidence", "citations", "model", "retrieved_cases"}
              \subseteq DOMAIN ask.response
        /\ ask.response.query = ask.query
        /\ ask.response.confidence \in ConfidenceValues

\* C8 (amended): every response returned by ask contains query (the input
\* query), answer, confidence in {high, medium, low, error} and citations;
\* model and retrieved_cases are present exactly in the response of a
\* successful generation call of the high-confidence tier.
C8_CoreFields ==
    (Returned /\ ask.entry = "ask") =>
        /\ {"query", "answer", "confidence", "citations"} \subseteq DOMAIN ask.response
        /\ ask.response.query = ask.query
        /\ ask.response.confidence \in ConfidenceValues
        /\ ("model" \in DOMAIN ask.response <=>
               (GenerationSucceeded /\ ask.prompts[1].template = "structured"))
        /\ ("retrieved_cases" \in DOMAIN ask.response <=> "model" \in DOMAIN ask.response)
        /\ ("model" \in DOMAIN ask.response =>
               /\ ask.response.model = LLMModel
               /\ ask.response.retrieved_cases = Len(ask.retrieved_docs))

C8_Witness ==
    /\ Returned
    /\ ask.entry = "ask"
    /\ GenerationSucceeded
    /\ ask.prompts[1].template = "hedged"
    /\ "model" \notin DOMAIN ask.response
    /\ ask.response.query = ask.query

---------------------------------------------------------------------------
(* Properties of VectorStore.search *)

SearchReturned == lastOp.op = "search" /\ lastOp.raised = None

\* the position in doc_ids of a returned doc_id
PosOf(id) == CHOOSE p \in 0..(Len(doc_ids) - 1) : doc_ids[p + 1] = id

\* the score of the stored vector at position p for the query of the last search
StoredScore(p) == ScoreAt(index, NormalizeL2(lastOp.query), p)

\* C9: search returns at most k results, and every returned doc_id is the id
\* of a vector of the index; a sentinel or out-of-range position gives no
\* result.
C9_AtMostKStoredIds ==
    SearchReturned =>
        /\ Len(lastOp.results) <= lastOp.k
        /\ Len(lastOp.results) <= Len(index.vecs)
        /\ \A i \in DOMAIN lastOp.results :
              /\ lastOp.results[i].doc_id \in Range(doc_ids)
              /\ PosOf(lastOp.results[i].doc_id) \in Positions(index)
              /\ lastOp.results[i].score # SentinelScore
        /\ \A i, j \in DOMAIN lastOp.results :
              i # j => lastOp.results[i].doc_id # lastOp.results[j].doc_id

C9_Witness ==
    /\ SearchReturned
    /\ lastOp.threshold = NoThreshold
    /\ lastOp.k > Len(index.vecs)
    /\ Len(lastOp.results) = Len(index.vecs)
    /\ Len(lastOp.results) > 0

Descending ==
    \A i, j \in DOMAIN lastOp.results :
        i < j => lastOp.results[i].score >= lastOp.results[j].score

AboveThreshold ==
    lastOp.threshold # NoThreshold =>
        \A i \in DOMAIN lastOp.results : lastOp.results[i].score >= lastOp.threshold[1]

\* the stored vectors that score above / at least as high as position p
Better(p) == {r \in Positions(index) : StoredScore(r) > StoredScore(p)}
NotWorse(p) == {r \in Positions(index) : StoredScore(r) >= StoredScore(p)}

Passes(p) == lastOp.threshold = NoThreshold \/ StoredScore(p) >= lastOp.threshold[1]

ReturnedPositions == {PosOf(lastOp.results[i].doc_id) : i \in DOMAIN lastOp.results}

\* C10 (as claimed, on an exact index): search returns the k stored vectors of
\* highest similarity in descending score order, equal scores in insertion
\* order, and with a threshold every hit has score >= threshold, a score equal
\* to it being kept.
C10_TopKStable ==
    (SearchReturned /\ index.type = "flat") =>
        /\ Descending
        /\ AboveThreshold
        /\ \A i, j \in DOMAIN lastOp.results :
              (i < j /\ lastOp.results[i].score = lastOp.results[j].score) =>
                  PosOf(lastOp.results[i].doc_id) < PosOf(lastOp.results[j].doc_id)
        /\ \A p \in Positions(index) :
              (Passes(p) /\ Cardinality(NotWorse(p)) <= lastOp.k) => p \in ReturnedPositions

\* C10 (amended): on an exact (flat) index search returns hits in descending
\* score order, each with the score of its stored vector and among the k
\* highest; every stored vector that is surely among the k highest, has a
\* doc_id and has score >= threshold (equal included) is returned.  The order
\* of equal scores is FAISS's, not necessarily insertion order.
C10_TopKDescending ==
    (SearchReturned /\ index.type = "flat") =>
        /\ Descending
        /\ AboveThreshold
        /\ \A i \in DOMAIN lastOp.results :
              LET p == PosOf(lastOp.results[i].doc_id)
              IN  /\ lastOp.results[i].score = StoredScore(p)
                  /\ Cardinality(Better(p)) < lastOp.k
        /\ \A p \in Positions(index) :
              (Passes(p) /\ Cardinality(NotWorse(p)) <= lastOp.k /\ p < Len(doc_ids))
                  => p \in ReturnedPositions

C10_Witness ==
    /\ SearchReturned
    /\ index.type = "flat"
    /\ lastOp.threshold # NoThreshold
    /\ Len(lastOp.results) = 2
    /\ lastOp.results[1].score = lastOp.threshold[1]
    /\ lastOp.results[2].score = lastOp.threshold[1]
    /\ PosOf(lastOp.results[1].doc_id) > PosOf(lastOp.results[2].doc_id)

---------------------------------------------------------------------------
(* Claims about the threshold of a search *)

\* the thresholds a search is repeated with: 0.28, 0.45, 0.60, 0.70, 0.95
CompareThresholds == {Some((t * ScoreOne) \div 100) : t \in {28, 45, 60, 70, 95}}

IsPrefix(s, t) == Len(s) <= Len(t) /\ \A i \in DOMAIN s : s[i] = t[i]

\* the FAISS answers that give the result of the last search
RowsOfLastSearch ==
    {rows \in IndexSearch(index, NormalizeL2(lastOp.query), lastOp.k) :
        FormatResults(Store, rows, lastOp.threshold)
            = [raised |-> None, results |-> lastOp.results]}

\* C11: for a fixed index, query and k (and so one FAISS answer), and
\* thresholds t1 <= t2, the result list with t2 is no longer than, and is a
\* prefix of, the result list with t1.
C11_ThresholdMonotone ==
    (SearchReturned /\ lastOp.threshold # NoThreshold) =>
        \A rows \in RowsOfLastSearch :
            \A t2 \in CompareThresholds :
                t2[1] >= lastOp.threshold[1] =>
                    LET r2 == FormatResults(Store, rows, t2)
                    IN  /\ r2.raised = None
                        /\ Len(r2.results) <= Len(lastOp.results)
                        /\ IsPrefix(r2.results, lastOp.results)

\* a search with threshold 0.45 returned two hits of which 0.70 keeps one
C11_Witness ==
    /\ SearchReturned
    /\ lastOp.threshold = Some(SimilarityThreshold)
    /\ Len(lastOp.results) = 2
    /\ \E rows \in RowsOfLastSearch :
          Len(FormatResults(Store, rows, Some((70 * ScoreOne) \div 100)).results) = 1

---------------------------------------------------------------------------
(* Claims about retrieve_documents *)

\* ask is in progress or has ended, and its query was embedded
Embedded == ask.entry = "ask" /\ ask.pc # "idle" /\ ask.raised # "RuntimeError"

\* no stored vector reaches the configured threshold for the query of ask
NoneReaches ==
    \A p \in Positions(index) :
        ScoreAt(index, NormalizeL2(Encode(ask.query)), p) < SimilarityThreshold

\* C12: retrieve_documents (with top_k >= 1) returns the empty list, without
\* raising, when no stored document reaches similarity_threshold (0.45);
\* every hit it returns has score >= the threshold, so ask never builds a tier
\* prompt for a top score below the threshold.
C12_RetrieveThreshold ==
    /\ (Embedded /\ ask.top_k >= 1 /\ NoneReaches) =>
            (ask.pc # "raised" /\ ask.retrieved_docs = <<>>)
    /\ (Embedded /\ ask.pc \in {"retrieved", "returned"}) =>
            \A i \in DOMAIN ask.retrieved_docs :
                ask.retrieved_docs[i].score >= SimilarityThreshold
    /\ (Embedded /\ Returned /\ ask.prompts # <<>>) =>
            TopScore >= SimilarityThreshold

\* ask answered with no hit over a non-empty index none of whose vectors
\* reaches the threshold
C12_Witness ==
    /\ Embedded
    /\ Returned
    /\ ask.top_k >= 1
    /\ index.vecs # <<>>
    /\ Len(doc_ids) = Len(index.vecs)
    /\ NoneReaches
    /\ ask.retrieved_docs = <<>>
    /\ ask.prompts = <<>>

---------------------------------------------------------------------------
(* Claims about k *)

\* a search that reached index.search with a query of the index's dimension
SearchedIndex ==
    lastOp.op = "search" /\ index.type # None /\ Len(lastOp.query) = index.d

---------------------------------------------------------------------------
(* Claims about the state of the store *)

Searched == lastOp.op \in {"search", "batch_search"}

BuildArguments ==
    UNION {{[embeddings |-> e, ids |-> Prefix(IdPool, ni),
             meta |-> Prefix(MetaPool, nm), index_type |-> t] :
                ni \in {Len(e) - 1, Len(e)}, nm \in {Len(e), Len(e) + 1},
                t \in IndexTypes} : e \in Corpora}

Mismatched(a) ==
    \/ \E i \in DOMAIN a.embeddings : Len(a.embeddings[i]) # Dimension
    \/ Len(a.embeddings) # Len(a.ids)
    \/ Len(a.embeddings) # Len(a.meta)
    \/ Len(a.ids) # Len(a.meta)

\* C15: build_index fails with an error when the embedding dimension is not
\* the configured one or when the numbers of vectors, ids and metadata entries
\* are not all equal, and then no index is built from the mismatched input:
\* the store is as it was.
C15_BuildRejectsMismatch ==
    /\ [](Idle =>
            \A a \in BuildArguments :
              Mismatched(a) =>
                  LET r == BuildIndexResult(Store, a.embeddings, a.ids, a.meta,
                                            a.index_type)
                  IN  r.raised = "AssertionError" /\ r.store = Store)
    /\ [][(Idle /\ lastOp'.op = "build_index" /\ lastOp'.raised = "AssertionError")
              => UNCHANGED <<index, doc_ids, metadata>>]_vars

\* a build_index with mismatched arguments failed on a store that was built
\* before, and the earlier index is still there
C15_Witness ==
    /\ lastOp.op = "build_index"
    /\ lastOp.raised = "AssertionError"
    /\ index.type # None
    /\ Len(doc_ids) = Len(index.vecs)

\* C16 (as claimed): doc_ids and metadata have the same length, and that of
\* the index once there is one, in every reachable state, the states after a
\* build_index or load that failed part-way included.
C16_LengthsAgree ==
    /\ Len(doc_ids) = Len(metadata)
    /\ index.type # None => Len(doc_ids) = Len(index.vecs)

---------------------------------------------------------------------------
(* Claims about save and load *)

\* the store a new VectorStore holds after load from the disk as it is
Reloaded == LoadResult(FreshStore, disk)

\* the three lengths of the persisted store
PersistedLengths ==
    {Len(disk.index.data.vecs), Len(disk.doc_ids.data), Len(disk.metadata.data)}

\* C17 (as claimed): load fails with an error whenever the persisted index
\* count, id list length and metadata list length are not all equal.
C17_LoadRejectsMismatch ==
    (lastOp.op = "load" /\ Cardinality(PersistedLengths) > 1) => lastOp.raised # None

---------------------------------------------------------------------------
(* Claims about a stored vector as the query *)

\* the positions of the stored vectors identical or parallel to the query of
\* the last search: after normalisation they are equal to it
Matches == {p \in Positions(index) : index.vecs[p + 1] = NormalizeL2(lastOp.query)}

\* the last call searched a built exact index with k >= 1 for a stored vector
SelfQuery ==
    /\ SearchReturned
    /\ index.type = "flat"
    /\ lastOp.k >= 1
    /\ Matches # {}

\* C19 (as claimed): on a built exact index whose ids cover its vectors, a
\* search with a stored vector as the query returns that vector's own doc_id
\* as the first hit with score 1.0 - for every stored vector, one with an
\* identical or parallel twin included.
C19_SelfFirst ==
    (SelfQuery /\ Len(doc_ids) = Len(index.vecs)) =>
        \A p \in Matches :
            /\ lastOp.results # <<>>
            /\ lastOp.results[1].doc_id = doc_ids[p + 1]
            /\ lastOp.results[1].score = ScoreOne

\* C19 (amended): on a built exact index, for a query that is a stored vector,
\* the first row of FAISS has score 1.0 and is a stored vector identical or
\* parallel to the query (the vector itself when it has no such twin), and
\* search returns the doc_id of that position as its first hit, with score
\* 1.0, whenever doc_ids has the position.
C19_SelfOrTwinFirst ==
    SelfQuery =>
        /\ RowsOfLastSearch # {}
        /\ \A rows \in RowsOfLastSearch :
              /\ rows[1].idx \in Matches
              /\ rows[1].score = ScoreOne
              /\ rows[1].idx < Len(doc_ids) =>
                    /\ lastOp.results # <<>>
                    /\ lastOp.results[1].doc_id = doc_ids[rows[1].idx + 1]
                    /\ lastOp.results[1].score = ScoreOne
        /\ (Cardinality(Matches) = 1 /\ Matches \subseteq 0..(Len(doc_ids) - 1)) =>
              \A p \in Matches : lastOp.results[1].doc_id = doc_ids[p + 1]

\* the query has two parallel stored vectors and the first hit is the later
\* of them
C19_Witness ==
    /\ SelfQuery
    /\ Len(doc_ids) = Len(index.vecs)
    /\ Cardinality(Matches) = 2
    /\ lastOp.results # <<>>
    /\ lastOp.results[1].score = ScoreOne
    /\ \E p \in Matches : p < PosOf(lastOp.results[1].doc_id)

---------------------------------------------------------------------------
(* Claims about batch_search *)

BatchReturned == lastOp.op = "batch_search" /\ lastOp.raised = None

\* the hit lists search can return for row i of the last batch, alone, with
\* the same k and the threshold t
SearchAlone(i, t) ==
    {o.results : o \in {x \in SearchOutcomes(Store, lastOp.query[i], lastOp.k, t) :
                            x.raised = None}}

\* C20 (as claimed): the result list of batch_search for row i is the result
\* of search on row i alone with the same k, whatever the other rows are, and
\* with the same threshold filtering that search supports.
C20_BatchEqualsSearchFiltered ==
    BatchReturned =>
        \A i \in DOMAIN lastOp.query :
            \A t \in Thresholds : lastOp.results[i] \in SearchAlone(i, t)

\* C20 (amended): the result list of batch_search for row i is the result of
\* search on row i alone with the same k and no score_threshold, whatever the
\* other rows are; batch_search takes no threshold and drops no hit by score.
C20_BatchEqualsSearchUnfiltered ==
    BatchReturned =>
        /\ DOMAIN lastOp.results = DOMAIN lastOp.query
        /\ \A i \in DOMAIN lastOp.query :
              lastOp.results[i] \in SearchAlone(i, NoThreshold)

\* a batch of two rows returned hits for both, one of them with a score below
\* the threshold of the service
C20_Witness ==
    /\ BatchReturned
    /\ Len(lastOp.query) = 2
    /\ lastOp.k >= 1
    /\ lastOp.results[1] # <<>>
    /\ lastOp.results[2] # <<>>
    /\ \E i \in DOMAIN lastOp.results[1] :
          lastOp.results[1][i].score < SimilarityThreshold

---------------------------------------------------------------------------
(* Claims about the stages of ask *)

Pipeline == <<"embed", "search", "context", "generate">>

Count(stage) == Cardinality({i \in DOMAIN ask.stages : ask.stages[i] = stage})

\* C24: in one ask the stages are entered in the order embed, search, build
\* context, generate, each after the one before has ended: the prompt sent
\* holds the context of the hits retrieval returned; there is exactly one
\* embedding call and at most one generation call.
C24_StagesInOrder ==
    (ask.entry = "ask" /\ ask.pc # "idle") =>
        /\ IsPrefix(ask.stages, Pipeline)
        /\ Count("embed") = 1
        /\ ask.embed_calls = 1
        /\ Count("generate") <= 1
        /\ Len(ask.prompts) = Count("generate")
        /\ ask.pc = "retrieved" => (ask.stages = <<"embed", "search">> /\ ask.llm = NoLLM)
        /\ ask.pc = "raised" => Count("context") = 0 /\ Count("generate") = 0
        /\ \A i \in DOMAIN ask.prompts :
              /\ ask.pc = "returned"
              /\ ask.prompts[i].context = FormatContext(ask.retrieved_docs)
              /\ ask.retrieved_docs # <<>>

\* an ask went through the four stages and its generation call failed
C24_Witness ==
    /\ ask.entry = "ask"
    /\ Returned
    /\ ask.stages = Pipeline
    /\ GenerationFailed
    /\ Len(ask.prompts) = 1

---------------------------------------------------------------------------
(* Claims about format_context *)

\* a prompt was sent: its context is what format_context returned
ContextBuilt == Returned /\ ask.prompts # <<>>

Context == ask.prompts[1].context

\* the value of a key of the metadata of hit i as the block shows it
Shown(i, key) ==
    IF key \in DOMAIN ask.retrieved_docs[i].metadata
    THEN ask.retrieved_docs[i].metadata[key]
    ELSE "Unknown"

\* C25: format_context emits one block per hit, in rank order, block i
\* labelled i (from 1) and carrying the title, court, date, case number and
\* score of hit i; block i of the context and citation i of the response
\* refer to the same hit.
C25_BlockPerHit ==
    ContextBuilt =>
        /\ Len(Context) = Len(ask.retrieved_docs)
        /\ \A i \in DOMAIN Context :
              /\ Context[i].ordinal = i
              /\ Context[i].title = Shown(i, "title")
              /\ Context[i].court = Shown(i, "court")
              /\ Context[i].date = Shown(i, "date")
              /\ Context[i].casenumber = Shown(i, "casenumber")
              /\ Context[i].score = Round3(ask.retrieved_docs[i].score)
        /\ ask.response.citations # <<>> =>
              /\ Len(ask.response.citations) = Len(Context)
              /\ \A i \in DOMAIN Context :
                    /\ ask.response.citations[i].title = Context[i].title
                    /\ ask.response.citations[i].court = Context[i].court
                    /\ ask.response.citations[i].date = Context[i].date
                    /\ ask.response.citations[i].case_number = Context[i].casenumber
                    /\ ask.response.citations[i].relevance_score = Context[i].score
                    /\ ask.response.citations[i].doc_id = ask.retrieved_docs[i].doc_id

\* a context of two blocks with different titles, the second without a date,
\* and two citations
C25_Witness ==
    /\ ContextBuilt
    /\ Len(Context) = 2
    /\ Context[1].title # Context[2].title
    /\ Context[1].date # "Unknown"
    /\ Context[2].date = "Unknown"
    /\ Len(ask.response.citations) = 2

\* the file of the document of block i
FileOf(i) == RawDocument(ask.retrieved_docs[i].doc_id)

\* C26: a document text longer than 2000 characters contributes its first 2000
\* characters followed by the truncation marker; a text of 2000 characters or
\* fewer contributes the whole text and no marker.
C26_Truncation ==
    ContextBuilt =>
        \A i \in DOMAIN Context :
            (FileOf(i).exists /\ FileOf(i).readable) =>
                /\ Context[i].text.source = "doc"
                /\ FileOf(i).length > 2000 =>
                      (Context[i].text.chars = 2000 /\ Context[i].text.marker)
                /\ FileOf(i).length <= 2000 =>
                      (Context[i].text.chars = FileOf(i).length /\ ~Context[i].text.marker)

\* a context with a text of 2000 characters, whole, and one of 2001, cut
C26_Witness ==
    /\ ContextBuilt
    /\ \E i, j \in DOMAIN Context :
          /\ FileOf(i).readable /\ FileOf(i).length = 2000
          /\ Context[i].text = [source |-> "doc", chars |-> 2000, marker |-> FALSE]
          /\ FileOf(j).readable /\ FileOf(j).length = 2001
          /\ Context[j].text = [source |-> "doc", chars |-> 2000, marker |-> TRUE]

\* C27 (as claimed): the block of a hit whose document is missing carries an
\* explicit placeholder string, and the blocks of all hits are still emitted.
C27_MissingPlaceholder ==
    ContextBuilt =>
        /\ Len(Context) = Len(ask.retrieved_docs)
        /\ \A i \in DOMAIN Context :
              ~FileOf(i).exists =>
                  (Context[i].text.source \notin {"empty", "doc"})

\* C29 (as claimed): a response carries a warning exactly when a successful
\* generation call in the low-confidence tier produced it, and every response
\* with confidence "low" and citations carries a warning.
C29_WarningIffLowSuccess ==
    Returned =>
        /\ ("warning" \in DOMAIN ask.response) <=>
              (ask.retrieved_docs # <<>> /\ TopScore < LowCutoff /\ GenerationSucceeded)
        /\ (ask.response.confidence = "low" /\ ask.response.citations # <<>>) =>
              "warning" \in DOMAIN ask.response

\* C30: the error field is present exactly when confidence is "error", an
\* error response has no citations, and a response with citations comes from
\* a generation call that succeeded.
C30_ErrorField ==
    Returned =>
        /\ ("error" \in DOMAIN ask.response) <=> (ask.response.confidence = "error")
        /\ ask.response.confidence = "error" => ask.response.citations = <<>>
        /\ ask.response.citations # <<>> => GenerationSucceeded

\* a failed generation call over two hits: an error response that cites none
C30_Witness ==
    /\ Returned
    /\ Len(ask.retrieved_docs) = 2
    /\ GenerationFailed
    /\ "error" \in DOMAIN ask.response
    /\ ask.response.confidence = "error"
    /\ ask.response.citations = <<>>

---------------------------------------------------------------------------
(* Properties of the service behind the /ask handler *)

Answered(r) == reqs[r].pc = "done" /\ reqs[r].status = 200
InAsk(r) == reqs[r].pc \in {"service", "retrieved"}

\* the template of the prompt sent for request r, or "none" for the fallback
TierOf(r) == IF reqs[r].prompts = <<>> THEN "none" ELSE reqs[r].prompts[1].template

\* two answered requests with the same query and top_k
SameQuestion(r1, r2) ==
    /\ r1 # r2
    /\ Answered(r1) /\ Answered(r2)
    /\ reqs[r1].query = reqs[r2].query
    /\ reqs[r1].top_k = reqs[r2].top_k

AloneResponses(r) ==
    {WithQuery(GenerateAnswerResult(reqs[r].query, o.results, reqs[r].llm).response,
               reqs[r].query) :
        o \in {x \in RetrieveOutcomes(Store, reqs[r].query, reqs[r].top_k) :
                  x.raised = None}}

\* C22: with requests interleaved, a request's response is one it gets when
\* run alone, it is an error response only if its own generation call failed,
\* and after a failed generation call the service is still there for the
\* requests in flight and for later ones.
C22_FailureContained ==
    /\ \A r \in Requests :
          Answered(r) =>
              /\ reqs[r].response \in AloneResponses(r)
              /\ (reqs[r].response.confidence = "error") <=>
                    (reqs[r].llm.kind \in {"raise", "null"})
    /\ (\E r \in Requests : InAsk(r) \/ Answered(r)) => rag = "ready"

\* request 1 got the error of its generation call while request 2, with the
\* same query, was in flight and got an answer with its citations
C22_Witness ==
    /\ SameQuestion(1, 2)
    /\ reqs[1].llm.kind = "raise"
    /\ reqs[1].response.confidence = "error"
    /\ reqs[2].llm.kind = "text"
    /\ reqs[2].response.confidence \in {"high", "medium"}
    /\ reqs[2].response.citations # <<>>
    /\ rag = "ready"

\* C23 (as claimed): the missing credential stops the process at its start;
\* no request that the server accepted fails on the missing credential.
C23_CredentialFatalAtStartup ==
    \A r \in Requests :
        ~(reqs[r].pc = "done" /\ reqs[r].status = 500 /\ reqs[r].detail = "ValueError")

\* the outcome of a complete load of the files
Loaded == LoadResult(FreshStore, disk)

\* C28: a request searches only the store of a published service, and that
\* store is the complete load of the files; no construction is in progress
\* while a request is inside ask or once a service is published; a published
\* service stays and its store is not assigned again.
C28_LoadBeforeSearch ==
    /\ [](/\ (\E r \in Requests : InAsk(r)) => (rag = "ready" /\ boot.by = 0)
          /\ rag = "ready" =>
                /\ boot.by = 0
                /\ Loaded.raised = None
                /\ Store = Loaded.store
                /\ index # NoIndex
          /\ rag = "none" => Store = FreshStore)
    /\ [][rag = "ready" =>
              (rag' = "ready" /\ boot' = NoBoot /\ UNCHANGED <<index, doc_ids, metadata>>)]_vars

\* the second request found the service that the first one constructed: both
\* are inside ask on the loaded store
C28_Witness ==
    /\ rag = "ready"
    /\ boot = NoBoot
    /\ reqs[1].pc = "retrieved"
    /\ reqs[2].pc = "service"
    /\ Len(doc_ids) = 2
    /\ Store = Loaded.store

====
